---------------------------- MODULE Spec2Model ----------------------------
(* The batch-correction notebook (notebooks/6.2_Batch_Correction.ipynb) as  *)
(* a state machine.  The state is the kernel's global namespace plus the    *)
(* state of numpy's global random generator; every code cell is one action. *)
(* Cells may be executed in any order and any number of times; a cell that  *)
(* raises before its first assignment (a name it reads is not bound yet)    *)
(* changes nothing, so its action is simply not enabled; a cell that raises *)
(* later keeps the bindings made up to that line.  Plotting calls leave no  *)
(* state; the imports and make_tidy are taken as executed.                  *)
(*                                                                          *)
(* Representation.                                                          *)
(*  - A sample 'Sample_0k' is the number k, a gene 'Gene_0k' the number k.  *)
(*  - A DataFrame is a sequence of rows (samples), a row a sequence over    *)
(*    the genes.  <<>> is "name not bound"; 0 is "not bound" for a count.   *)
(*  - np.random is an abstract deterministic stream: the value drawn is a   *)
(*    function of the seed and of the number of values drawn since the      *)
(*    seeding.  Draws are small integers instead of floats.                 *)
(*  - The seed, n_samples and n_genes are literals of the generator cell.   *)
(*    They are chosen at the first execution of that cell and kept for the  *)
(*    kernel session, so every frame of a session has the same shape        *)
(*    (Spec).  SpecResized adds sessions in which the n_samples literal is  *)
(*    edited and the generator cell executed again.                         *)
(*  - RIN = i + 0.5 is held in half units (2*RIN), and so is rin_noise.     *)
EXTENDS Integers, Sequences, FiniteSets

VARIABLES rng, n_samples, n_genes, data, mouse_groups,
          batch1_samples, batch2_samples, batches, noisy_data,
          metadata, rin_noise, rin_batchy_data,
          regressor, rin_dependent_data, rin_corrected_data, widget_out,
          mouse_colors, row_colors

vars == <<rng, n_samples, n_genes, data, mouse_groups,
          batch1_samples, batch2_samples, batches, noisy_data,
          metadata, rin_noise, rin_batchy_data,
          regressor, rin_dependent_data, rin_corrected_data, widget_out,
          mouse_colors, row_colors>>

(* ------------------------------ bounds --------------------------------- *)
MaxSamples == 4

MaxGenes == 4

MaxNoiseRuns == 2

Seeds == {2016, 2017}

(* --------------------------- helpers ----------------------------------- *)
RECURSIVE SumOver(_, _)
SumOver(S, f) ==
  IF S = {} THEN 0
  ELSE LET x == CHOOSE y \in S : TRUE IN f[x] + SumOver(S \ {x}, f)

Abs(x) == IF x < 0 THEN -x ELSE x

(* ------------------------- numpy's generator --------------------------- *)
(* as SeedRng, but the stream is not restarted *)
SeedRngKeepsPosition(r, s) == [seed |-> s, pos |-> r.pos]

(* np.random.seed(s): the stream restarts at its first value.              *)
SeedRng(r, s) == [seed |-> s, pos |-> 0]

(* The k-th (0-based) standard-normal draw of the stream seeded with s.    *)
Randn(s, k) ==
  (((((s % 89) + 1) * (k + 1) * (k + 3) + (k * k * k * 7) + ((s % 3) * k)) % 101) % 5) - 2

(* as Advance, but drawing does not move the stream *)
AdvanceStuck(r, k) == r

(* drawing k values moves the stream k positions on *)
Advance(r, k) == [r EXCEPT !.pos = @ + k]

(* np.random.randn(size).reshape(n_samples, n_genes): row-major.           *)
RandnMatrix(r, ns, ng) ==
  [s \in 1..ns |-> [g \in 1..ng |-> Randn(r.seed, r.pos + (s - 1) * ng + (g - 1))]]

(* as Half, but rounding up *)
HalfRoundedUp(n) == (n + 1) \div 2

(* int(n/2) *)
Half(n) == n \div 2

(* data.iloc[r1:r2, c1:c2] += k  (1-based, inclusive bounds here).          *)
AddToBlock(M, r1, r2, c1, c2, k) ==
  [s \in 1..Len(M) |-> [g \in 1..Len(M[s]) |->
      IF s \in r1..r2 /\ g \in c1..c2 THEN M[s][g] + k ELSE M[s][g]]]

(* "Add biological variance": the four slice updates, in the cell's order. *)
BiologicalVariance(M, ns, ng) ==
  LET half_samples == Half(ns)
      half_genes   == Half(ng)
      m1 == AddToBlock(M,  1, half_samples, 1, half_genes, 1)
      m2 == AddToBlock(m1, 1, half_samples, half_genes + 1, ng, -1)
      m3 == AddToBlock(m2, half_samples + 1, ns, half_genes + 1, ng, 1)
      m4 == AddToBlock(m3, half_samples + 1, ns, 1, half_genes, -1)
  IN m4

(* pd.Series(dict(zip(data.index, ['Mouse_01']*int(n/2) + ['Mouse_02']*int(n/2)))) *)
(* zip stops at the shorter of its two arguments.                          *)
MouseGroups(ns) ==
  LET labels == [i \in 1..(Half(ns) + Half(ns)) |->
                    IF i <= Half(ns) THEN "Mouse_01" ELSE "Mouse_02"]
      len == IF ns < Len(labels) THEN ns ELSE Len(labels)
  IN [i \in 1..len |-> labels[i]]

(* mouse_colors = [mouse_to_color[mouse_groups[x]] for x in samples] raises *)
(* KeyError for a sample that has no entry in mouse_groups; the generator   *)
(* cell then stops there, and gene_colors is not bound either.              *)
MouseColorsRaises(groups, samples) ==
  \E i \in 1..Len(samples) : samples[i] \notin DOMAIN groups

MouseColors(groups, samples) ==
  [i \in 1..Len(samples) |->
     IF groups[samples[i]] = "Mouse_01" THEN "lightgrey" ELSE "black"]

(* batch_colors = [batch_to_color[batches[x]] for x in samples], with the   *)
(* first two colours of seaborn's palette                                  *)
BatchColors(b) ==
  [i \in 1..Len(b) |-> IF b[i] = "Batch_01" THEN "palette_0" ELSE "palette_1"]

(* samples = ['Sample_01', ...], genes = ['Gene_01', ...] *)
SampleList(ns) == [i \in 1..ns |-> i]

GeneList(ng) == [i \in 1..ng |-> i]

(* ----------------------- "Add technical noise" -------------------------- *)
(* scale=2 of np.random.normal *)
NoiseScale == 2

(* as Batch1Samples, but samples[1::2] *)
Batch1SamplesFromSecond(samples) ==
  {samples[i] : i \in {j \in 1..Len(samples) : (j - 1) % 2 = 1}}

(* samples[::2]: the items at the 0-based positions 0, 2, 4, ...           *)
Batch1Samples(samples) ==
  {samples[i] : i \in {j \in 1..Len(samples) : (j - 1) % 2 = 0}}

(* data.index.difference(batch1_samples) *)
Batch2Samples(index, b1) == {index[i] : i \in 1..Len(index)} \ b1

(* pd.Series(dict((x, 'Batch_01') if x in batch1_samples else (x, 'Batch_02') ...)) *)
BatchLabels(samples, b1) ==
  [i \in 1..Len(samples) |-> IF samples[i] \in b1 THEN "Batch_01" ELSE "Batch_02"]

(* np.random.normal(size=size, scale=scale) drawn at the generator state r *)
Normal(r, size, scale) == [j \in 1..size |-> scale * Randn(r.seed, r.pos + (j - 1))]

(* as NoisyColumns, but  2:  *)
NoisyColumnsFromThird(ng) == 3..ng

(* the columns selected by  :-2  *)
NoisyColumns(ng) == 1..(ng - 2)

(* M.ix[rows, cols] += vec : vec is broadcast over the selected rows, its  *)
(* k-th value going to the k-th selected column.                           *)
AddToRows(M, rows, cols, vec) ==
  [s \in 1..Len(M) |-> [g \in 1..Len(M[s]) |->
      IF s \in rows /\ g \in cols
      THEN M[s][g] + vec[Cardinality({c \in cols : c <= g})]
      ELSE M[s][g]]]

(* as TechnicalNoise, but with a fresh vector drawn for every sample       *)
TechnicalNoisePerSample(d, r, ng, b1, b2) ==
  LET size == ng - 2
  IN [s \in 1..Len(d) |-> [g \in 1..Len(d[s]) |->
        IF g \in NoisyColumns(ng)
        THEN d[s][g] + Normal(Advance(r, (s - 1) * size), size, NoiseScale)[g]
        ELSE d[s][g]]]

(* noisy_data after lines 230-232, from the clean matrix d.                *)
TechnicalNoise(d, r, ng, b1, b2) ==
  LET size == ng - 2
      v1 == Normal(r, size, NoiseScale)
      v2 == Normal(Advance(r, size), size, NoiseScale)
      n1 == AddToRows(d, b1, NoisyColumns(ng), v1)
  IN AddToRows(n1, b2, NoisyColumns(ng), v2)

(* as DataAfterNoise, but with noisy_data = data (no copy): the updates    *)
(* reach the one shared object                                             *)
DataAliasedByNoise(d, noisy) == noisy

(* noisy_data = data.copy(): the object bound to `data` after the in-place *)
(* updates of noisy_data is still d.                                       *)
DataAfterNoise(d, noisy) == d

(* ---------------------------- metadata ---------------------------------- *)
(* pd.concat([batches, mouse_groups], axis=1): the rows are the union of   *)
(* the two indexes; a sample missing from one Series gets NaN there.       *)
(* The RIN column is absent (<<>>) until the RIN cell assigns it.          *)
ConcatAxis1(b, m) ==
  LET rows == IF Len(b) < Len(m) THEN Len(m) ELSE Len(b)
  IN [Batch |-> [i \in 1..rows |-> IF i <= Len(b) THEN b[i] ELSE "NaN"],
      Mouse |-> [i \in 1..rows |-> IF i <= Len(m) THEN m[i] ELSE "NaN"],
      RIN   |-> <<>>]

(* the columns of the metadata frame *)
Columns(md) == {"Batch", "Mouse"} \cup (IF md.RIN = <<>> THEN {} ELSE {"RIN"})

(* as RinValues, but np.arange(len(samples)) + 1.5                         *)
RinValuesShifted(samples) == [i \in 1..Len(samples) |-> 2 * (i - 1) + 3]

(* np.arange(len(samples)) + 0.5, in half units: 2 * (i + 0.5)             *)
RinValues(samples) == [i \in 1..Len(samples) |-> 2 * (i - 1) + 1]

(* ------------------------- covariate (RIN) noise ------------------------ *)
(* genes[1:-1] *)
InteriorGenes(genes) == {genes[j] : j \in 2..(Len(genes) - 1)}

(* metadata['RIN'].apply(lambda x: pd.Series(np.ones(n_genes-2)*x,         *)
(*   index=genes[1:-1])).reindex(columns=genes).fillna(0), in half units   *)
RinNoise(rin, genes) ==
  LET applied == [s \in 1..Len(rin) |-> [g \in InteriorGenes(genes) |-> rin[s]]]
  IN [s \in 1..Len(rin) |-> [j \in 1..Len(genes) |->
        IF genes[j] \in DOMAIN applied[s] THEN applied[s][genes[j]] ELSE 0]]

(* data + rin_noise, in half units (d is in whole units) *)
AddRinNoise(d, noise) ==
  [s \in 1..Len(d) |-> [g \in 1..Len(d[s]) |-> 2 * d[s][g] + noise[s][g]]]

(* data + rin_noise when the two frames have different samples: the sum has *)
(* the union of the rows, and NaN in the rows one frame lacks.  Its only    *)
(* later reader, the regression's fit, rejects a frame that contains a NaN, *)
(* so the frame is kept as one of that many rows that is NaN throughout.    *)
MissingRows(d, noise) ==
  LET rows == IF Len(d) < Len(noise) THEN Len(noise) ELSE Len(d)
  IN [s \in 1..rows |-> [g \in 1..Len(d[1]) |-> 0]]

ColSum(M, g) == SumOver(1..Len(M), [s \in 1..Len(M) |-> M[s][g]])

ColSumSq(M, g) == SumOver(1..Len(M), [s \in 1..Len(M) |-> M[s][g] * M[s][g]])

(* (M - M.mean()) / M.std(), per gene.  The entry kept for sample s and    *)
(* gene g is the integer c = n*M[s][g] - sum_t M[t][g]; the value it stands *)
(* for is c * sqrt(n-1) / sqrt(sum_t c[t][g]^2), a positive per-gene       *)
(* multiple of c.  A gene whose values are all equal has std 0 and becomes  *)
(* a column of NaN: it is the column whose entries c are all 0.            *)
Standardize(M) ==
  [s \in 1..Len(M) |-> [g \in 1..Len(M[s]) |-> Len(M) * M[s][g] - ColSum(M, g)]]

HasNaN(Z) == \E g \in 1..Len(Z[1]) : ColSumSq(Z, g) = 0

(* --------------------------- linear regression -------------------------- *)
SeqSum(x) == SumOver(1..Len(x), x)

SeqSumSq(x) == SumOver(1..Len(x), [i \in 1..Len(x) |-> x[i] * x[i]])

Dot(x, M, g) == SumOver(1..Len(x), [s \in 1..Len(x) |-> x[s] * M[s][g]])

(* n * sum(x^2) - sum(x)^2 *)
Dx(x) == Len(x) * SeqSumSq(x) - SeqSum(x) * SeqSum(x)

(* the common denominator of the fitted values *)
FitDen(x) == Len(x) * Dx(x)

(* as Fit, but with the intercept left at 0                                *)
FitWithoutIntercept(x, Y) ==
  [coef |-> [g \in 1..Len(Y[1]) |-> Len(x) * Dot(x, Y, g) - SeqSum(x) * ColSum(Y, g)],
   intercept |-> [g \in 1..Len(Y[1]) |-> 0]]

(* LinearRegression().fit(x.to_frame(), Y): one least-squares line per     *)
(* gene, with an intercept.  coef[g] is the slope times Dx(x), intercept[g] *)
(* the intercept times FitDen(x).                                          *)
Fit(x, Y) ==
  LET n == Len(x)
      slope == [g \in 1..Len(Y[1]) |-> n * Dot(x, Y, g) - SeqSum(x) * ColSum(Y, g)]
  IN [coef |-> slope,
      intercept |-> [g \in 1..Len(Y[1]) |->
                       ColSum(Y, g) * Dx(x) - slope[g] * SeqSum(x)]]

(* regressor.predict(x.to_frame()): the entries are times FitDen(x).       *)
Predict(reg, x) ==
  [s \in 1..Len(x) |-> [g \in 1..Len(reg.coef) |->
      reg.intercept[g] + Len(x) * reg.coef[g] * x[s]]]

(* Y - P (the entries of P and of the result are times den)                *)
Subtract(Y, P, den) ==
  [s \in 1..Len(Y) |-> [g \in 1..Len(Y[s]) |-> den * Y[s][g] - P[s][g]]]

(* ------------------------------ r2_score -------------------------------- *)
RECURSIVE Gcd(_, _)
Gcd(a, b) == IF b = 0 THEN Abs(a) ELSE Gcd(b, a % Abs(b))

RECURSIVE GcdOver(_, _)
GcdOver(S, f) ==
  IF S = {} THEN 0
  ELSE LET x == CHOOSE y \in S : TRUE IN Gcd(f[x], GcdOver(S \ {x}, f))

(* The entries of one gene in two frames of a common scale stand for real  *)
(* values times one positive factor; their greatest common divisor is      *)
(* taken out of that factor before they are squared.                       *)
ColumnUnit(A, B, g) ==
  LET d == Gcd(GcdOver(1..Len(A), [s \in 1..Len(A) |-> A[s][g]]),
               GcdOver(1..Len(B), [s \in 1..Len(B) |-> B[s][g]]))
  IN IF d = 0 THEN 1 ELSE d

(* the resolution scores are kept at: sixteenths, rounded down             *)
ScoreUnit == 16

(* sklearn's r2_score for one output g: 1 - numerator / denominator with    *)
(* numerator = sum (y_true - y_pred)^2 and denominator =                    *)
(* sum (y_true - mean(y_true))^2; 1 when both are zero, 0 when only the     *)
(* denominator is.  Both sums are taken times n.                            *)
R2Gene(y_true, y_pred, g) ==
  LET n == Len(y_true)
      u == ColumnUnit(y_true, y_pred, g)
      t == [s \in 1..n |-> y_true[s][g] \div u]
      p == [s \in 1..n |-> y_pred[s][g] \div u]
      numerator == n * SumOver(1..n, [s \in 1..n |-> (t[s] - p[s]) * (t[s] - p[s])])
      denominator == n * SeqSumSq(t) - SeqSum(t) * SeqSum(t)
  IN IF denominator # 0
     THEN ScoreUnit - ((ScoreUnit * numerator + denominator - 1) \div denominator)
     ELSE IF numerator = 0 THEN ScoreUnit ELSE 0

(* r2_score(y_true, y_pred): the uniform average over the genes            *)
R2Score(y_true, y_pred) ==
  LET genes == 1..Len(y_true[1])
  IN SumOver(genes, [g \in genes |-> R2Gene(y_true, y_pred, g)]) \div Len(y_true[1])

(* ------------------- remove_batch_effects_with_combat ------------------- *)
(* Python's None as an argument value *)
None == "<None>"

(* the values of the 'Batch to correct for' dropdown *)
BatchOptions == {"Mouse", "Batch"}

(* the values of the 'Variable of interest' dropdown, and two values only a *)
(* direct call can pass: the string 'null' and a name that is no column     *)
KeepConstantValues == {None, "Mouse", "Batch", "Mouse + Batch", "null", "Age"}

(* the variables a formula '~ <keep_constant>' names *)
FormulaTerms(keep_constant) ==
  IF keep_constant = "Mouse + Batch" THEN {"Mouse", "Batch"} ELSE {keep_constant}

(* as ModelBranch, but with `and` in the first condition *)
ModelBranchAnd(keep_constant, md) ==
  IF keep_constant # None /\ keep_constant \in Columns(md) THEN "dmatrix"
  ELSE IF keep_constant = "null" \/ keep_constant = None THEN "none"
  ELSE "unassigned"

(* lines 387-392: how the design model is chosen.  "dmatrix": patsy builds  *)
(* it; "none": model = None; "unassigned": neither branch assigns model.    *)
ModelBranch(keep_constant, md) ==
  IF keep_constant # None \/ keep_constant \in Columns(md) THEN "dmatrix"
  ELSE IF keep_constant = "null" \/ keep_constant = None THEN "none"
  ELSE "unassigned"

(* patsy.dmatrix('~ ...', metadata): a name that is neither a column nor a  *)
(* Python name is an error; rows with a missing value are dropped.          *)
Dmatrix(keep_constant, md) ==
  LET terms == FormulaTerms(keep_constant)
  IN IF terms \subseteq Columns(md)
     THEN [error |-> FALSE, terms |-> terms,
           rows |-> {i \in 1..Len(md.Batch) : \A c \in terms : md[c][i] # "NaN"}]
     ELSE [error |-> TRUE, terms |-> terms, rows |-> {}]

(* the samples labelled l *)
Members(labels, l) == {i \in 1..Len(labels) : labels[i] = l}

RowSum(M, S, g) == SumOver(S, [s \in S |-> M[s][g]])

RECURSIVE Product(_, _)
Product(S, f) ==
  IF S = {} THEN 1
  ELSE LET x == CHOOSE y \in S : TRUE IN f[x] * Product(S \ {x}, f)

(* the common denominator of the batch-adjusted values *)
CombatDen(labels) ==
  LET levels == {labels[i] : i \in 1..Len(labels)}
  IN Len(labels) * Product(levels, [l \in levels |-> Cardinality(Members(labels, l))])

(* combat(X.T, labels, model).T.  combat_py is not part of the sources at  *)
(* hand; this is the location part of the adjustment the specification     *)
(* describes: each gene's batch mean is moved to the gene's overall mean   *)
(* (no shrinkage, no rescaling, the design model is not used).  The        *)
(* entries are times CombatDen(labels).                                    *)
Combat(X, labels, model) ==
  LET den == CombatDen(labels)
      n == Len(labels)
  IN [s \in 1..Len(X) |-> [g \in 1..Len(X[s]) |->
        LET mine == Members(labels, labels[s])
        IN den * X[s][g]
           - (den \div Cardinality(mine)) * RowSum(X, mine, g)
           + (den \div n) * RowSum(X, 1..n, g)]]

(* The samples of the matrix and of the label series are the same (by       *)
(* count: sample lists are prefixes of Sample_01, Sample_02, ...).  On any  *)
(* other input the specification asks for an alignment error.              *)
CombatAligned(X, labels) == Len(X) = Len(labels)

(* as BatchDiff, but without .abs() *)
BatchDiffSigned(M, b) ==
  LET b1 == Members(b, "Batch_01")
      b2 == Members(b, "Batch_02")
  IN [g \in 1..Len(M[1]) |->
        Cardinality(b2) * RowSum(M, b1, g) - Cardinality(b1) * RowSum(M, b2, g)]

(* M.groupby(batches).mean(), then |row 'Batch_01' - row 'Batch_02'| per    *)
(* gene; the entries are times the product of the two batch sizes.         *)
BatchDiff(M, b) ==
  LET b1 == Members(b, "Batch_01")
      b2 == Members(b, "Batch_02")
  IN [g \in 1..Len(M[1]) |->
        Abs(Cardinality(b2) * RowSum(M, b1, g) - Cardinality(b1) * RowSum(M, b2, g))]

(* combat_called: the call at line 395 was made in the invocation           *)
NoOutput ==
  [status |-> "none", model |-> None, combat_called |-> FALSE,
   noisy |-> <<>>, corrected |-> <<>>]

(* ------------------------------- Init ----------------------------------- *)
Init ==
  /\ rng = [seed |-> 0, pos |-> 0]
  /\ n_samples = 0
  /\ n_genes = 0
  /\ data = <<>>
  /\ mouse_groups = <<>>
  /\ batch1_samples = {}
  /\ batch2_samples = {}
  /\ batches = <<>>
  /\ noisy_data = <<>>
  /\ metadata = [Batch |-> <<>>, Mouse |-> <<>>, RIN |-> <<>>]
  /\ rin_noise = <<>>
  /\ rin_batchy_data = <<>>
  /\ regressor = [coef |-> <<>>, intercept |-> <<>>]
  /\ rin_dependent_data = <<>>
  /\ rin_corrected_data = <<>>
  /\ widget_out = NoOutput
  /\ mouse_colors = <<>>
  /\ row_colors = <<>>

(* --------------------- cell: synthetic data generator ------------------- *)
(* the generator cell's statements, with the literals seed, ns and ng       *)
RunGenerator(seed, ns, ng) ==
  /\ LET seeded == SeedRng(rng, seed)
     IN /\ data' = BiologicalVariance(RandnMatrix(seeded, ns, ng), ns, ng)
        /\ rng' = Advance(seeded, ns * ng)
  /\ n_samples' = ns
  /\ n_genes' = ng
  /\ mouse_groups' = MouseGroups(ns)
  /\ mouse_colors' = IF MouseColorsRaises(MouseGroups(ns), SampleList(ns))
                     THEN mouse_colors
                     ELSE MouseColors(MouseGroups(ns), SampleList(ns))
  /\ UNCHANGED <<batch1_samples, batch2_samples, batches, noisy_data,
                 metadata, rin_noise, rin_batchy_data, regressor,
                 rin_dependent_data, rin_corrected_data, widget_out, row_colors>>

(* An execution of the cell within one session: the literals are those of  *)
(* its first execution.                                                    *)
Generate(seed, ns, ng) ==
  /\ n_samples = 0 \/ (rng.seed = seed /\ n_samples = ns /\ n_genes = ng)
  /\ RunGenerator(seed, ns, ng)

(* ----------------------- cell: add technical noise ---------------------- *)
AddTechnicalNoise ==
  /\ data # <<>>
  /\ rng.pos < n_samples * n_genes + MaxNoiseRuns * 2 * (n_genes - 2)
  /\ LET samples == SampleList(n_samples)
         b1 == Batch1Samples(samples)
         b2 == Batch2Samples(SampleList(Len(data)), b1)
         noisy == TechnicalNoise(data, rng, n_genes, b1, b2)
     IN /\ batch1_samples' = b1
        /\ batch2_samples' = b2
        /\ batches' = BatchLabels(samples, b1)
        /\ noisy_data' = noisy
        /\ data' = DataAfterNoise(data, noisy)
  /\ rng' = Advance(rng, 2 * (n_genes - 2))
  /\ row_colors' = IF mouse_colors = <<>> THEN row_colors
                   ELSE <<mouse_colors,
                          BatchColors(BatchLabels(SampleList(n_samples),
                                                  Batch1Samples(SampleList(n_samples))))>>
  /\ UNCHANGED <<n_samples, n_genes, mouse_groups, metadata, rin_noise,
                 rin_batchy_data, regressor, rin_dependent_data,
                 rin_corrected_data, widget_out, mouse_colors>>

(* --------------------------- cell: metadata ----------------------------- *)
CreateMetadata ==
  /\ batches # <<>>
  /\ n_samples # 0
  /\ metadata' = ConcatAxis1(batches, mouse_groups)
  /\ UNCHANGED <<rng, n_samples, n_genes, data, mouse_groups, batch1_samples,
                 batch2_samples, batches, noisy_data, rin_noise, rin_batchy_data,
                 regressor, rin_dependent_data, rin_corrected_data, widget_out,
          mouse_colors, row_colors>>

(* ------------------- cell: metadata['RIN'] = ... ------------------------ *)
(* Assigning a column of another length than the frame raises ValueError.  *)
AssignRin ==
  /\ metadata.Batch # <<>>
  /\ Len(SampleList(n_samples)) = Len(metadata.Batch)
  /\ metadata' = [metadata EXCEPT !.RIN = RinValues(SampleList(n_samples))]
  /\ UNCHANGED <<rng, n_samples, n_genes, data, mouse_groups, batch1_samples,
                 batch2_samples, batches, noisy_data, rin_noise, rin_batchy_data,
                 regressor, rin_dependent_data, rin_corrected_data, widget_out,
          mouse_colors, row_colors>>

(* ---------------------------- cell: rin_noise --------------------------- *)
MakeRinNoise ==
  /\ "RIN" \in Columns(metadata)
  /\ rin_noise' = RinNoise(metadata.RIN, GeneList(n_genes))
  /\ UNCHANGED <<rng, n_samples, n_genes, data, mouse_groups, batch1_samples,
                 batch2_samples, batches, noisy_data, metadata, rin_batchy_data,
                 regressor, rin_dependent_data, rin_corrected_data, widget_out,
          mouse_colors, row_colors>>

(* ------------------------- cell: rin_batchy_data ------------------------ *)
MakeRinBatchy ==
  /\ data # <<>>
  /\ rin_noise # <<>>
  /\ rin_batchy_data' = IF Len(data) = Len(rin_noise)
                        THEN Standardize(AddRinNoise(data, rin_noise))
                        ELSE MissingRows(data, rin_noise)
  /\ UNCHANGED <<rng, n_samples, n_genes, data, mouse_groups, batch1_samples,
                 batch2_samples, batches, noisy_data, metadata, rin_noise,
                 regressor, rin_dependent_data, rin_corrected_data, widget_out,
          mouse_colors, row_colors>>

(* ---------------------- cell: regression correction --------------------- *)
(* fit raises ValueError on a target that contains NaN.                    *)
RegressOutRin ==
  /\ rin_batchy_data # <<>>
  /\ "RIN" \in Columns(metadata)
  /\ Len(metadata.RIN) = Len(rin_batchy_data)
  /\ ~HasNaN(rin_batchy_data)
  /\ LET x == metadata.RIN
         reg == Fit(x, rin_batchy_data)
         predicted == Predict(reg, x)
     IN /\ regressor' = reg
        /\ rin_dependent_data' = predicted
        /\ rin_corrected_data' = Subtract(rin_batchy_data, predicted, FitDen(x))
  /\ UNCHANGED <<rng, n_samples, n_genes, data, mouse_groups, batch1_samples,
                 batch2_samples, batches, noisy_data, metadata, rin_noise,
                 rin_batchy_data, widget_out, mouse_colors, row_colors>>

(* ---------------- cell: remove_batch_effects_with_combat ---------------- *)
(* One call of the function by the widget or directly.  Its variables are   *)
(* local; what remains is the output area: the outcome of the call and the  *)
(* two series of per-gene batch differences it plots.  The call raises at   *)
(* the design model (PatsyError), at the combat call when model was never   *)
(* assigned (UnboundLocalError), inside combat when its inputs have          *)
(* different samples (AlignmentError), at the heat map drawn right after    *)
(* combat when row_colors is not bound (NameError), or at .loc['Batch_02']  *)
(* when no sample is labelled Batch_02 (KeyError).                          *)
RemoveBatchEffectsWithCombat(batch, keep_constant, cluster_on_correlations) ==
  /\ metadata.Batch # <<>>
  /\ noisy_data # <<>>
  /\ LET branch == ModelBranch(keep_constant, metadata)
         design == Dmatrix(keep_constant, metadata)
         failed(status) == [NoOutput EXCEPT !.status = status]
     IN widget_out' =
          IF branch = "unassigned" THEN failed("UnboundLocalError")
          ELSE IF branch = "dmatrix" /\ design.error THEN failed("PatsyError")
          ELSE LET model == IF branch = "none" THEN None ELSE keep_constant
                   corrected_data == Combat(noisy_data, metadata[batch], model)
                   called(status) ==
                     [NoOutput EXCEPT !.status = status, !.combat_called = TRUE]
               IN IF ~CombatAligned(noisy_data, metadata[batch])
                  THEN called("AlignmentError")
                  ELSE IF row_colors = <<>> THEN called("NameError")
                  ELSE IF Members(batches, "Batch_02") = {} THEN called("KeyError")
                  ELSE
                  [status |-> "ok", model |-> model, combat_called |-> TRUE,
                   noisy |-> BatchDiff(noisy_data, batches),
                   corrected |-> BatchDiff(corrected_data, batches)]
  /\ UNCHANGED <<rng, n_samples, n_genes, data, mouse_groups, batch1_samples,
                 batch2_samples, batches, noisy_data, metadata, rin_noise,
                 rin_batchy_data, regressor, rin_dependent_data, rin_corrected_data,
                 mouse_colors, row_colors>>

Next ==
  \/ \E seed \in Seeds, ns \in 1..MaxSamples, ng \in 3..MaxGenes : Generate(seed, ns, ng)
  \/ AddTechnicalNoise
  \/ CreateMetadata
  \/ AssignRin
  \/ MakeRinNoise
  \/ MakeRinBatchy
  \/ RegressOutRin
  \/ \E batch \in BatchOptions, keep_constant \in KeepConstantValues,
        cluster_on_correlations \in BOOLEAN :
        RemoveBatchEffectsWithCombat(batch, keep_constant, cluster_on_correlations)

Spec == Init /\ [][Next]_vars

(* The generator cell executed again after its n_samples literal was       *)
(* edited (here: halved).  The frames made by the cells run before keep     *)
(* their old samples until those cells are run again.                      *)
Resize ==
  /\ n_samples >= 2
  /\ RunGenerator(rng.seed, n_samples \div 2, n_genes)

(* Sessions with an edited sample count, for the notebook's seed and three  *)
(* genes.                                                                   *)
NextResized ==
  \/ \E ns \in 1..MaxSamples : Generate(2016, ns, 3)
  \/ Resize
  \/ AddTechnicalNoise
  \/ CreateMetadata
  \/ AssignRin
  \/ MakeRinNoise
  \/ MakeRinBatchy
  \/ RegressOutRin
  \/ \E batch \in BatchOptions, keep_constant \in KeepConstantValues,
        cluster_on_correlations \in BOOLEAN :
        RemoveBatchEffectsWithCombat(batch, keep_constant, cluster_on_correlations)

SpecResized == Init /\ [][NextResized]_vars
(* ============================ properties ================================ *)
(* the two noise vectors the injection cell draws at the generator state r *)
FirstNoiseVector(r, ng) == Normal(r, ng - 2, NoiseScale)

SecondNoiseVector(r, ng) == Normal(Advance(r, ng - 2), ng - 2, NoiseScale)

AnyGenerate ==
  \E seed \in Seeds, ns \in 1..MaxSamples, ng \in 3..MaxGenes : Generate(seed, ns, ng)

AnyCombatCall ==
  \E batch \in BatchOptions, keep_constant \in KeepConstantValues,
     cluster_on_correlations \in BOOLEAN :
     RemoveBatchEffectsWithCombat(batch, keep_constant, cluster_on_correlations)

(* C1: every re-execution of the generator cell (same seed, same counts)   *)
(* binds `data` to a matrix equal to the one it was bound to before,        *)
(* whatever cells ran in between.                                          *)
C1_GeneratorDeterministic == [][(AnyGenerate /\ data # <<>>) => data' = data]_vars

(* C1 witness: noise was injected (values were drawn after the generator's) *)
(* and the generator cell was executed again after that.                   *)
C1_Witness ==
  /\ data # <<>>
  /\ noisy_data # <<>>
  /\ noisy_data # data
  /\ rng.pos = n_samples * n_genes

(* C2: each cell of data is its own draw plus exactly one constant: +1 when *)
(* sample and gene are both in the first floor(n/2) or both in the rest,    *)
(* -1 otherwise; even and odd counts alike.                                *)
C2_BlockDesign ==
  data # <<>> =>
    /\ Len(data) = n_samples
    /\ \A s \in 1..n_samples :
         /\ Len(data[s]) = n_genes
         /\ \A g \in 1..n_genes :
              data[s][g] - Randn(rng.seed, (s - 1) * n_genes + (g - 1))
                = IF (s <= n_samples \div 2) = (g <= n_genes \div 2) THEN 1 ELSE -1

(* C2 witness: odd sample and gene counts; the extra last row and column    *)
(* got the second half's +1.                                               *)
C2_Witness ==
  /\ data # <<>>
  /\ n_samples = 3
  /\ n_genes = 3
  /\ data[3][3] - Randn(rng.seed, 8) = 1

(* C3: mouse_groups, batches and metadata hold one record with a defined    *)
(* Mouse group and Batch for every row of data; the first floor(n/2)        *)
(* samples are Mouse_01, all the others Mouse_02.                          *)
C3_MetadataCoversEverySample ==
  /\ n_samples # 0 =>
       /\ Len(mouse_groups) = Len(data)
       /\ \A i \in 1..Len(mouse_groups) :
            mouse_groups[i] = IF i <= n_samples \div 2 THEN "Mouse_01" ELSE "Mouse_02"
  /\ batches # <<>> =>
       /\ Len(batches) = Len(data)
       /\ \A i \in 1..Len(batches) : batches[i] \in {"Batch_01", "Batch_02"}
  /\ metadata.Batch # <<>> =>
       /\ Len(metadata.Batch) = Len(data)
       /\ Len(metadata.Mouse) = Len(data)
       /\ \A i \in 1..Len(data) :
            /\ metadata.Batch[i] \in {"Batch_01", "Batch_02"}
            /\ metadata.Mouse[i] = IF i <= n_samples \div 2 THEN "Mouse_01" ELSE "Mouse_02"

(* C4: after the injection cell the batch labels partition the samples by   *)
(* row parity (0-based even rows are Batch_01), batch1_samples and          *)
(* batch2_samples are the two label classes, and a sample's row received    *)
(* the first noise vector if it is labelled Batch_01 and the second if it   *)
(* is labelled Batch_02.                                                   *)
C4_BatchesByRowParity ==
  [][AddTechnicalNoise =>
       /\ Len(batches') = n_samples
       /\ \A i \in 1..n_samples :
            batches'[i] = IF (i - 1) % 2 = 0 THEN "Batch_01" ELSE "Batch_02"
       /\ batch1_samples' \cap batch2_samples' = {}
       /\ batch1_samples' \cup batch2_samples' = 1..n_samples
       /\ batch1_samples' = {i \in 1..n_samples : batches'[i] = "Batch_01"}
       /\ batch2_samples' = {i \in 1..n_samples : batches'[i] = "Batch_02"}
       /\ \A s \in 1..n_samples : \A g \in 1..(n_genes - 2) :
            noisy_data'[s][g] - data[s][g] =
              IF batches'[s] = "Batch_01" THEN FirstNoiseVector(rng, n_genes)[g]
              ELSE SecondNoiseVector(rng, n_genes)[g]]_vars

(* C4 witness: four samples, two in each batch, and the two batches were    *)
(* shifted differently on the first gene.                                  *)
C4_Witness ==
  /\ noisy_data # <<>>
  /\ n_samples = 4
  /\ batch1_samples = {1, 3}
  /\ batch2_samples = {2, 4}
  /\ noisy_data[1][1] - data[1][1] # noisy_data[2][1] - data[2][1]

(* C5: the injection cell leaves the last two genes of every sample as they *)
(* are in the clean matrix, so their between-batch mean difference is the   *)
(* same before and after; every other gene gets its batch's noise value.    *)
C5_ControlGenesUntouched ==
  [][AddTechnicalNoise =>
       /\ \A s \in 1..n_samples : \A g \in {n_genes - 1, n_genes} :
            noisy_data'[s][g] = data[s][g]
       /\ \A g \in {n_genes - 1, n_genes} :
            BatchDiff(noisy_data', batches')[g] = BatchDiff(data, batches')[g]
       /\ \A s \in 1..n_samples : \A g \in 1..(n_genes - 2) :
            noisy_data'[s][g] - data[s][g] \in
              {FirstNoiseVector(rng, n_genes)[g], SecondNoiseVector(rng, n_genes)[g]}]_vars

(* C5 witness: noisy_data agrees with data on the last two genes and        *)
(* differs from it on another gene.                                        *)
C5_Witness ==
  /\ noisy_data # <<>>
  /\ \A s \in 1..n_samples : \A g \in {n_genes - 1, n_genes} :
       noisy_data[s][g] = data[s][g]
  /\ \E s \in 1..n_samples : \E g \in 1..(n_genes - 2) : noisy_data[s][g] # data[s][g]

(* C6: one noise vector per batch.  On every non-control gene two samples   *)
(* of one batch are shifted by the same amount; the amounts are the          *)
(* n_genes-2 values drawn first (Batch_01) and the n_genes-2 values drawn   *)
(* next (Batch_02), nothing else is drawn, and each batch's per-gene sum     *)
(* moves by the batch size times its value.                                 *)
C6_OneNoiseVectorPerBatch ==
  [][AddTechnicalNoise =>
       /\ \A g \in 1..(n_genes - 2) : \A s, t \in 1..n_samples :
            batches'[s] = batches'[t] =>
              noisy_data'[s][g] - data[s][g] = noisy_data'[t][g] - data[t][g]
       /\ \A g \in 1..(n_genes - 2) :
            /\ RowSum(noisy_data', batch1_samples', g) =
                 RowSum(data, batch1_samples', g)
                   + Cardinality(batch1_samples') * FirstNoiseVector(rng, n_genes)[g]
            /\ RowSum(noisy_data', batch2_samples', g) =
                 RowSum(data, batch2_samples', g)
                   + Cardinality(batch2_samples') * SecondNoiseVector(rng, n_genes)[g]
       /\ rng'.pos = rng.pos + 2 * (n_genes - 2)]_vars

(* C6 witness: two different samples of one batch carry the same non-zero   *)
(* shift on a non-control gene.                                            *)
C6_Witness ==
  /\ noisy_data # <<>>
  /\ \E g \in 1..(n_genes - 2) : \E s, t \in 1..n_samples :
       /\ s # t
       /\ batches[s] = batches[t]
       /\ noisy_data[s][g] # data[s][g]
       /\ noisy_data[s][g] - data[s][g] = noisy_data[t][g] - data[t][g]

(* C7: sample i (0-based) has RIN = i + 0.5; rin_noise is the sample's RIN  *)
(* on every gene but the first and the last and 0 on those two; and         *)
(* rin_batchy_data is the (standardized) sum of rin_noise and the clean     *)
(* matrix data.  RIN and rin_noise are in half units (see Standardize for   *)
(* the entries of rin_batchy_data).                                        *)
C7_CovariateNoise ==
  /\ "RIN" \in Columns(metadata) =>
       /\ Len(metadata.RIN) = n_samples
       /\ \A i \in 0..(n_samples - 1) : metadata.RIN[i + 1] = 2 * i + 1
  /\ rin_noise # <<>> =>
       /\ Len(rin_noise) = n_samples
       /\ \A i \in 0..(n_samples - 1) :
            /\ Len(rin_noise[i + 1]) = n_genes
            /\ \A g \in 1..n_genes :
                 rin_noise[i + 1][g] = IF g = 1 \/ g = n_genes THEN 0 ELSE 2 * i + 1
  /\ rin_batchy_data # <<>> =>
       \A s \in 1..n_samples : \A g \in 1..n_genes :
         rin_batchy_data[s][g] =
           n_samples * (2 * data[s][g] + rin_noise[s][g])
             - SumOver(1..n_samples,
                       [u \in 1..n_samples |-> 2 * data[u][g] + rin_noise[u][g]])

(* C7 witness: the covariate-noisy matrix exists while a batch-noisy matrix *)
(* different from data exists too.                                         *)
C7_Witness ==
  /\ rin_batchy_data # <<>>
  /\ noisy_data # <<>>
  /\ noisy_data # data
  /\ n_samples >= 3
  /\ rin_noise[3][2] = 5

(* C8: no stage changes an earlier stage's output.  data is the same before *)
(* and after noise injection, the RIN cells, every combat call and the      *)
(* regression; noisy_data before and after every combat call;               *)
(* rin_batchy_data before and after the regression.  (Stated as: a step     *)
(* that changes the matrix is a step of none of these cells.)               *)
C8_StagesKeepEarlierOutputs ==
  [][/\ data' # data =>
          ~(AddTechnicalNoise \/ AssignRin \/ MakeRinNoise \/ MakeRinBatchy
              \/ AnyCombatCall \/ RegressOutRin)
     /\ noisy_data' # noisy_data => ~AnyCombatCall
     /\ rin_batchy_data' # rin_batchy_data => ~RegressOutRin]_vars

(* C8 witness: every stage has run: noise was injected, a combat call        *)
(* completed and the regression produced its corrected matrix.              *)
C8_Witness ==
  /\ noisy_data # <<>>
  /\ noisy_data # data
  /\ widget_out.status = "ok"
  /\ rin_corrected_data # <<>>

(* C9: the regression cell's result is, per gene, observed minus a line in  *)
(* RIN with an intercept, fitted by least squares: residual + prediction =  *)
(* observed, the prediction is affine in RIN, and the residuals sum to zero *)
(* and have zero cross product with RIN.  Shape and labels are the input's. *)
C9_RegressionCorrection ==
  [][RegressOutRin =>
       LET x == metadata.RIN
           n == Len(rin_batchy_data)
       IN /\ Len(rin_corrected_data') = n
          /\ Len(rin_dependent_data') = n
          /\ \A s \in 1..n :
               /\ Len(rin_corrected_data'[s]) = Len(rin_batchy_data[s])
               /\ \A g \in 1..n_genes :
                    rin_corrected_data'[s][g] + rin_dependent_data'[s][g]
                      = FitDen(x) * rin_batchy_data[s][g]
          /\ \A g \in 1..n_genes :
               /\ ColSum(rin_corrected_data', g) = 0
               /\ Dot(x, rin_corrected_data', g) = 0
               /\ \A s, u, v \in 1..n :
                    (rin_dependent_data'[s][g] - rin_dependent_data'[u][g]) * (x[v] - x[u])
                      = (rin_dependent_data'[v][g] - rin_dependent_data'[u][g]) * (x[s] - x[u])]_vars

(* C9 witness: the regression ran and removed a non-zero slope and a        *)
(* non-zero prediction from some gene.                                     *)
C9_Witness ==
  /\ rin_corrected_data # <<>>
  /\ \E g \in 1..n_genes : regressor.coef[g] # 0
  /\ \E s \in 1..n_samples : \E g \in 1..n_genes :
       /\ rin_dependent_data[s][g] # 0
       /\ rin_corrected_data[s][g] # 0

(* the regression correction of lines 631-642 applied to a matrix Y: the    *)
(* fitted part that is subtracted (entries times FitDen(x))                 *)
FittedPart(x, Y) == Predict(Fit(x, Y), x)

(* C10 as claimed: the regression correction applied to the clean matrix    *)
(* data changes no cell by half a unit or more (two samples at least).      *)
C10_CleanMatrixUnchanged ==
  (data # <<>> /\ "RIN" \in Columns(metadata) /\ n_samples >= 2) =>
    \A s \in 1..n_samples : \A g \in 1..n_genes :
      2 * Abs(FittedPart(metadata.RIN, data)[s][g]) < FitDen(metadata.RIN)

(* C10 amended: applied to the clean matrix, the regression leaves a gene   *)
(* unchanged exactly when the gene's values sum to zero and have zero cross *)
(* product with RIN; applied to its own output it changes nothing.          *)
C10_UnchangedOnlyWithoutLinearPart ==
  /\ (data # <<>> /\ "RIN" \in Columns(metadata) /\ n_samples >= 2) =>
       \A g \in 1..n_genes :
         (\A s \in 1..n_samples : FittedPart(metadata.RIN, data)[s][g] = 0)
           <=> (ColSum(data, g) = 0 /\ Dot(metadata.RIN, data, g) = 0)
  /\ (rin_corrected_data # <<>> /\ "RIN" \in Columns(metadata)) =>
       \A s \in 1..n_samples : \A g \in 1..n_genes :
         FittedPart(metadata.RIN, rin_corrected_data)[s][g] = 0

(* C10 witness: the regression has run, and on the clean matrix it would    *)
(* move some cell by half a unit or more.                                  *)
C10_Witness ==
  /\ data # <<>>
  /\ "RIN" \in Columns(metadata)
  /\ n_samples >= 2
  /\ rin_corrected_data # <<>>
  /\ \E s \in 1..n_samples : \E g \in 1..n_genes :
       2 * Abs(FittedPart(metadata.RIN, data)[s][g]) >= FitDen(metadata.RIN)

(* M with every entry multiplied by k *)
Scale(M, k) == [s \in 1..Len(M) |-> [g \in 1..Len(M[s]) |-> k * M[s][g]]]

(* a score within one eighth of zero (scores are in sixteenths)             *)
NearZero(score) == Abs(score) <= 2

(* every gene of M has two different values (its variance is not zero)      *)
EveryGeneVaries(M) ==
  \A g \in 1..Len(M[1]) : \E s, u \in 1..Len(M) : M[s][g] # M[u][g]

(* C11 as claimed: once the regression cell has run (on residuals that vary *)
(* in every gene), the score of RIN re-fitted against rin_corrected_data is *)
(* near zero, and the score the cell computes,                              *)
(* r2_score(rin_corrected_data, rin_dependent_data), is near zero and is    *)
(* that score.                                                              *)
C11_ScoreNearZero ==
  (rin_corrected_data # <<>> /\ "RIN" \in Columns(metadata)
     /\ EveryGeneVaries(rin_corrected_data)) =>
    LET refit == R2Score(Scale(rin_corrected_data, FitDen(metadata.RIN)),
                         FittedPart(metadata.RIN, rin_corrected_data))
        computed == R2Score(rin_corrected_data, rin_dependent_data)
    IN /\ NearZero(refit)
       /\ NearZero(computed)
       /\ computed = refit

(* the metadata column c has one and the same value for all samples         *)
ConstantColumn(md, c) == \A i, j \in 1..Len(md[c]) : md[c][i] = md[c][j]

(* keep_constant names a variable that is no column of the metadata, or a   *)
(* column without variation                                                *)
InvalidCovariate(keep_constant, md) ==
  /\ keep_constant # None
  /\ \E c \in FormulaTerms(keep_constant) :
       c \notin Columns(md) \/ ConstantColumn(md, c)

(* C12 as claimed: a call whose keep_constant names no column of the        *)
(* metadata, or a constant column, ends in the design model's error         *)
(* (PatsyError), and combat was not called in it.                           *)
C12_InvalidCovariateFailsAtDesignModel ==
  [][\A batch \in BatchOptions, keep_constant \in KeepConstantValues,
        cluster_on_correlations \in BOOLEAN :
        (/\ widget_out' # widget_out
         /\ InvalidCovariate(keep_constant, metadata)
         /\ RemoveBatchEffectsWithCombat(batch, keep_constant, cluster_on_correlations))
        => (widget_out'.status = "PatsyError" /\ ~widget_out'.combat_called)]_vars

(* a term of '~ <keep_constant>' is a function of the label corrected for:  *)
(* two samples with the same label never differ in it, so its columns lie   *)
(* in the span of the label's indicator columns                            *)
Collinear(batch, keep_constant, md) ==
  /\ keep_constant # None
  /\ \E c \in FormulaTerms(keep_constant) \cap Columns(md) :
       \A i, j \in 1..Len(md[c]) : md[batch][i] = md[batch][j] => md[c][i] = md[c][j]

(* C13 as claimed: a call whose covariate (columns of the metadata that     *)
(* vary) is collinear with the label it corrects for ends in an error of    *)
(* the design-matrix construction, and combat was not called with that      *)
(* design.                                                                  *)
C13_CollinearCovariateFails ==
  [][\A batch \in BatchOptions, keep_constant \in KeepConstantValues,
        cluster_on_correlations \in BOOLEAN :
        (/\ widget_out' # widget_out
         /\ Collinear(batch, keep_constant, metadata)
         /\ ~InvalidCovariate(keep_constant, metadata)
         /\ RemoveBatchEffectsWithCombat(batch, keep_constant, cluster_on_correlations))
        => (widget_out'.status = "PatsyError" /\ ~widget_out'.combat_called)]_vars

(* C14 as claimed, for sessions in which the sample count was edited: a     *)
(* combat call made while noisy_data and the metadata have different        *)
(* samples (and whose design model could be built) ends in an alignment     *)
(* error without combat having been called; and the regression cell fits    *)
(* nothing unless metadata['RIN'] and rin_batchy_data have the same samples. *)
C14_MismatchFailsBeforeComputation ==
  [][/\ \A batch \in BatchOptions, keep_constant \in KeepConstantValues,
           cluster_on_correlations \in BOOLEAN :
           (/\ widget_out' # widget_out
            /\ Len(noisy_data) # Len(metadata.Batch)
            /\ ~(ModelBranch(keep_constant, metadata) = "dmatrix"
                   /\ Dmatrix(keep_constant, metadata).error)
            /\ RemoveBatchEffectsWithCombat(batch, keep_constant, cluster_on_correlations))
           => (widget_out'.status = "AlignmentError" /\ ~widget_out'.combat_called)
     /\ (regressor' # regressor /\ RegressOutRin)
           => Len(metadata.RIN) = Len(rin_batchy_data)]_vars

(* the generator state right after the generator cell *)
AfterGenerator == [seed |-> rng.seed, pos |-> n_samples * n_genes]

(* C16 as claimed: every execution of the noise cell draws the same two     *)
(* vectors, those of the execution that directly follows data generation,   *)
(* and rebinds noisy_data to the matrix it was bound to before.             *)
C16_NoiseIdenticalOnEveryExecution ==
  [][AddTechnicalNoise =>
       /\ FirstNoiseVector(rng, n_genes) = FirstNoiseVector(AfterGenerator, n_genes)
       /\ SecondNoiseVector(rng, n_genes) = SecondNoiseVector(AfterGenerator, n_genes)
       /\ noisy_data # <<>> => noisy_data' = noisy_data]_vars

(* C16 amended: the noise cell does not seed; it draws the next              *)
(* 2*(n_genes-2) values of the stream the generator cell seeded.  The        *)
(* values added are those at the positions reached so far, so an execution  *)
(* that directly follows the generator cell always adds the values at the    *)
(* positions n_samples*n_genes onwards, and every execution moves the        *)
(* stream on by 2*(n_genes-2) for the next one.                              *)
C16_NoiseContinuesTheStream ==
  [][AddTechnicalNoise =>
       LET size == n_genes - 2
       IN /\ \A s \in 1..n_samples : \A g \in 1..size :
               noisy_data'[s][g] =
                 data[s][g] + NoiseScale *
                   Randn(rng.seed, rng.pos + (IF (s - 1) % 2 = 0 THEN 0 ELSE size) + (g - 1))
          /\ rng'.pos = rng.pos + 2 * size
          /\ rng'.seed = rng.seed
          /\ (rng.pos - n_samples * n_genes) % (2 * size) = 0
          /\ rng.pos >= n_samples * n_genes]_vars

(* C16 witness: the noise cell was executed twice since the generator cell, *)
(* and the matrix of its second execution is not the one its first          *)
(* execution made.                                                          *)
C16_Witness ==
  /\ noisy_data # <<>>
  /\ rng.pos = n_samples * n_genes + 4 * (n_genes - 2)
  /\ noisy_data # TechnicalNoise(data, AfterGenerator, n_genes,
                                 batch1_samples, batch2_samples)

(* |mean over B1 - mean over B2| per gene of M, times |B1| * |B2|            *)
AbsoluteMeanDifference(M, B1, B2) ==
  [g \in 1..Len(M[1]) |->
     Abs(Cardinality(B2) * RowSum(M, B1, g) - Cardinality(B1) * RowSum(M, B2, g))]

(* C17: a call that reports its comparison reports one value per gene for   *)
(* the noisy matrix: the absolute difference of the gene's means over the    *)
(* Batch_01 and over the Batch_02 samples of noisy_data, which is not        *)
(* negative and in which no argument of the call occurs; and the same        *)
(* quantity of the corrected matrix, whatever label was corrected for.       *)
(* (cluster_on_correlations only selects the plot, so a step of a call with  *)
(* it set is also a step of the call without.)                               *)
C17_ComparatorIsAbsoluteBatchMeanDifference ==
  [][\A batch \in BatchOptions, keep_constant \in KeepConstantValues :
        (/\ widget_out' # widget_out
         /\ widget_out'.status = "ok"
         /\ widget_out'.model = keep_constant
         /\ RemoveBatchEffectsWithCombat(batch, keep_constant, FALSE))
        => /\ Len(widget_out'.noisy) = n_genes
           /\ Len(widget_out'.corrected) = n_genes
           /\ \A g \in 1..n_genes :
                widget_out'.noisy[g] >= 0 /\ widget_out'.corrected[g] >= 0
           /\ widget_out'.noisy =
                AbsoluteMeanDifference(noisy_data, batch1_samples, batch2_samples)
           /\ widget_out'.corrected =
                AbsoluteMeanDifference(Combat(noisy_data, metadata[batch], keep_constant),
                                       batch1_samples, batch2_samples)]_vars

(* C17 witness: a call that corrected for 'Mouse' reported a batch           *)
(* difference of the noisy matrix and one of the corrected matrix.           *)
C17_Witness ==
  /\ widget_out.status = "ok"
  /\ \E g \in 1..n_genes : widget_out.noisy[g] > 0
  /\ \E g \in 1..n_genes : widget_out.corrected[g] > 0
  /\ \E g \in 1..n_genes :
       RowSum(noisy_data, batch1_samples, g) < RowSum(noisy_data, batch2_samples, g)

(* C18: for every argument value, with the metadata of any reachable state, *)
(* one of the two branches assigns the design model: model = None exactly   *)
(* when keep_constant is None, the patsy branch for every other value, the  *)
(* string 'null' included; and no call ends in UnboundLocalError.            *)
C18_ModelAssignedOnEveryPath ==
  /\ \A keep_constant \in KeepConstantValues :
       /\ ModelBranch(keep_constant, metadata) \in {"dmatrix", "none"}
       /\ ModelBranch(keep_constant, metadata) = "none" <=> keep_constant = None
  /\ ModelBranch("null", metadata) = "dmatrix"
  /\ widget_out.status # "UnboundLocalError"
  /\ widget_out.status = "ok" => widget_out.model \in KeepConstantValues \ {"null", "Age"}

(* C18 witness: calls were made with a keep_constant that is no column      *)
(* (the patsy branch was taken and raised) after the metadata got its RIN    *)
(* column.                                                                  *)
C18_Witness ==
  /\ widget_out.status = "PatsyError"
  /\ "RIN" \in Columns(metadata)

=============================================================================
